---- MODULE Spec2Model ----
(***************************************************************************)
(* Model of the release-asset redirect layer of apt-web                    *)
(* (src/github_proxy.go) together with the filename filter                 *)
(* (validateFilename in src/main.go).                                      *)
(*                                                                         *)
(* Strings are sequences of one-character strings, so that path.Base,      *)
(* url.PathUnescape, strings.Replace and path.Match are computed the way   *)
(* the Go library computes them.  A Go map is a TLA+ function whose DOMAIN *)
(* is the key set; the nil map and the empty map are both << >>.           *)
(***************************************************************************)
EXTENDS Integers, Sequences, FiniteSets, TLC

\* ------------------------------------------------------------------------
\* Bounds of the model
\* ------------------------------------------------------------------------

\* Largest number of successful refresh cycles explored.
MaxBuilds == 2

\* ------------------------------------------------------------------------
\* Strings
\* ------------------------------------------------------------------------

nDot == <<"a", ".", "b", ".", "d", "e", "b">>
nTilde == <<"a", "~", "b", ".", "d", "e", "b">>
nRelease == <<"R", "e", "l", "e", "a", "s", "e">>

urlA == "https://cdn/A"
urlB == "https://cdn/B"

\* ------------------------------------------------------------------------
\* Data model: asset, release (src/github_proxy.go:40-49)
\* ------------------------------------------------------------------------

asset(n, u, s) == [Name |-> n, BrowserURL |-> u, Size |-> s]

release(as) == [Tag |-> "t", Assets |-> as]

\* The feeds configured in main (src/unnamed/part_001:62-66).
releasesURLs == <<"syncthing", "discosrv", "relaysrv">>

\* ------------------------------------------------------------------------
\* Input universes
\* ------------------------------------------------------------------------

BuildNames == {nDot, nTilde}

BuildAssets == {asset(n, v[1], v[2]) : n \in BuildNames, v \in {<<urlA, 10>>, <<urlB, 20>>}}

\* Releases of the builder's universe: no asset, one asset, two assets of
\* different names, or the same name twice in one release.
BuildReleases ==
    {release(<< >>)}
    \cup {release(<<a>>) : a \in BuildAssets}
    \cup {release(<<asset(nDot, urlA, 10), asset(nTilde, urlB, 20)>>),
          release(<<asset(nDot, urlA, 10), asset(nDot, urlB, 20)>>)}

\* Feed bodies of the builder's universe: a JSON array of no, one or two releases.
BuildBodies ==
    {<< >>}
    \cup {<<r>> : r \in BuildReleases}
    \cup {<<r1, r2>> : r1 \in BuildReleases, r2 \in BuildReleases}

\* Feed bodies of the full system: an empty array, or one release of one asset.
ServeAssets == {asset(nDot, urlA, 10), asset(nDot, urlB, 20), asset(nTilde, urlA, 10)}

ServeBodies == {<< >>} \cup {<<release(<<a>>)>> : a \in ServeAssets}

HTTPStatuses == {200, 404}

\* http.StatusTemporaryRedirect
StatusTemporaryRedirect == 307

\* ------------------------------------------------------------------------
\* Pure functions of the builder
\* ------------------------------------------------------------------------

\* m[k] = v on a Go map.
MapSet(m, k, v) == [x \in DOMAIN m \cup {k} |-> IF x = k THEN v ELSE m[x]]

\* delete(m, k) on a Go map.
MapDelete(m, k) == [x \in DOMAIN m \ {k} |-> m[x]]

RECURSIVE CollectAssets(_, _)
\* The inner loop of fetchGithubReleaseAssets: assets[asset.Name] = asset
\* for every asset of one release, in order.
CollectAssets(m, as) ==
    IF as = << >> THEN m
    ELSE CollectAssets(MapSet(m, Head(as).Name, Head(as)), Tail(as))

RECURSIVE CollectReleases(_, _)
\* The outer loop of fetchGithubReleaseAssets over the decoded releases.
CollectReleases(m, rels) ==
    IF rels = << >> THEN m
    ELSE CollectReleases(CollectAssets(m, Head(rels).Assets), Tail(rels))

\* The map fetchGithubReleaseAssets returns for a decoded body.
fetchGithubReleaseAssets(rels) == CollectReleases(<< >>, rels)

\* MergeKey without the nonUnique set: an occurrence after a dropped one
\* inserts the name again.
MergeKey_NoNonUnique(st, key, a) ==
    IF key \in DOMAIN st.newAssets
    THEN [newAssets |-> MapDelete(st.newAssets, key), nonUnique |-> st.nonUnique]
    ELSE [newAssets |-> MapSet(st.newAssets, key, a), nonUnique |-> st.nonUnique]

\* MergeKey with the nonUnique test inverted: every key is skipped.
MergeKey_InvertedSkip(st, key, a) ==
    IF key \notin st.nonUnique THEN st
    ELSE IF key \in DOMAIN st.newAssets
         THEN [newAssets |-> MapDelete(st.newAssets, key),
               nonUnique |-> st.nonUnique \cup {key}]
         ELSE [newAssets |-> MapSet(st.newAssets, key, a),
               nonUnique |-> st.nonUnique]

\* MergeKey as maps.Copy: a later feed's asset replaces an earlier one.
MergeKey_LastWins(st, key, a) ==
    [newAssets |-> MapSet(st.newAssets, key, a), nonUnique |-> st.nonUnique]

\* One iteration of the merge loop of Serve on key with value a; st is the
\* pair of maps newAssets, nonUnique.
MergeKey(st, key, a) ==
    IF key \in st.nonUnique THEN st
    ELSE IF key \in DOMAIN st.newAssets
         THEN [newAssets |-> MapDelete(st.newAssets, key),
               nonUnique |-> st.nonUnique \cup {key}]
         ELSE [newAssets |-> MapSet(st.newAssets, key, a),
               nonUnique |-> st.nonUnique]

RECURSIVE MergeFeed(_, _, _)
\* The merge loop of Serve over one feed's map, visiting its keys in order.
MergeFeed(st, assets, order) ==
    IF order = << >> THEN st
    ELSE MergeFeed(MergeKey(st, Head(order), assets[Head(order)]), assets, Tail(order))

\* The orders in which range may visit the keys of a map.
KeyOrders(m) ==
    {o \in [1..Cardinality(DOMAIN m) -> DOMAIN m] :
        \A i, j \in DOMAIN o : i # j => o[i] # o[j]}

\* ------------------------------------------------------------------------
\* String functions of the Go library, on sequences of characters
\* ------------------------------------------------------------------------

RECURSIVE StripTrailingSlashes(_)
StripTrailingSlashes(p) ==
    IF p # << >> /\ p[Len(p)] = "/"
    THEN StripTrailingSlashes(SubSeq(p, 1, Len(p) - 1))
    ELSE p

\* Index of the last "/" of p, 0 when it has none.
LastSlash(p) ==
    LET idx == {i \in DOMAIN p : p[i] = "/"} IN
    IF idx = {} THEN 0 ELSE CHOOSE i \in idx : \A j \in idx : j <= i

\* path.Base
Base(p) ==
    IF p = << >> THEN <<".">>
    ELSE LET q == StripTrailingSlashes(p)
             e == SubSeq(q, LastSlash(q) + 1, Len(q)) IN
         IF e = << >> THEN <<"/">> ELSE e

HexDigits == {"0", "1", "2", "3", "4", "5", "6", "7", "8", "9",
              "a", "b", "c", "d", "e", "f", "A", "B", "C", "D", "E", "F"}

\* The byte a %XY escape stands for.  Only the bytes the modelled requests
\* use are told apart; every other byte is the one character "?".
Unhex(x, y) ==
    CASE x = "7" /\ y \in {"E", "e"} -> "~"
      [] x = "2" /\ y \in {"E", "e"} -> "."
      [] x = "2" /\ y = "5" -> "%"
      [] x = "2" /\ y \in {"F", "f"} -> "/"
      [] OTHER -> "?"

\* The first loop of url.unescape: every "%" is followed by two hex digits.
WellEscaped(s) ==
    \A i \in DOMAIN s :
        s[i] = "%" =>
            /\ i + 2 <= Len(s)
            /\ s[i + 1] \in HexDigits
            /\ s[i + 2] \in HexDigits

RECURSIVE Decode(_)
\* The second loop of url.unescape in path-segment mode ("+" stays "+").
Decode(s) ==
    IF s = << >> THEN << >>
    ELSE IF Head(s) = "%"
         THEN <<Unhex(s[2], s[3])>> \o Decode(SubSeq(s, 4, Len(s)))
         ELSE <<Head(s)>> \o Decode(Tail(s))

\* url.PathUnescape: the decoded string, or an error.
PathUnescape(s) ==
    IF WellEscaped(s) THEN [err |-> FALSE, val |-> Decode(s)]
    ELSE [err |-> TRUE, val |-> << >>]

\* strings.Replace(s, old, new, 1) for one-character old and new.
ReplaceFirst(s, old, new) ==
    LET idx == {i \in DOMAIN s : s[i] = old} IN
    IF idx = {} THEN s
    ELSE LET k == CHOOSE i \in idx : \A j \in idx : i <= j IN
         [i \in DOMAIN s |-> IF i = k THEN new ELSE s[i]]

RECURSIVE Match(_, _)
\* path.Match for patterns made of literal characters, "*" and "?"
\* (the configured patterns hold no "[" class and no "\" escape).
Match(pattern, name) ==
    IF pattern = << >> THEN name = << >>
    ELSE IF Head(pattern) = "*"
         THEN \/ Match(Tail(pattern), name)
              \/ /\ name # << >>
                 /\ Head(name) # "/"
                 /\ Match(pattern, Tail(name))
         ELSE /\ name # << >>
              /\ IF Head(pattern) = "?" THEN Head(name) # "/"
                 ELSE Head(name) = Head(pattern)
              /\ Match(Tail(pattern), Tail(name))

HasPrefix(s, prefix) ==
    /\ Len(s) >= Len(prefix)
    /\ SubSeq(s, 1, Len(prefix)) = prefix

WhiteSpace == {" ", "\t"}

RECURSIVE FieldsFrom(_, _, _)
\* strings.Fields: cur is the field being read, out the fields read so far.
FieldsFrom(s, cur, out) ==
    IF s = << >> THEN (IF cur = << >> THEN out ELSE Append(out, cur))
    ELSE IF Head(s) \in WhiteSpace
         THEN FieldsFrom(Tail(s), << >>, IF cur = << >> THEN out ELSE Append(out, cur))
         ELSE FieldsFrom(Tail(s), Append(cur, Head(s)), out)

Fields(s) == FieldsFrom(s, << >>, << >>)

RECURSIVE TrimLeft(_, _)
TrimLeft(s, cutset) ==
    IF s # << >> /\ Head(s) \in cutset THEN TrimLeft(Tail(s), cutset) ELSE s

RECURSIVE TrimRight(_, _)
TrimRight(s, cutset) ==
    IF s # << >> /\ s[Len(s)] \in cutset
    THEN TrimRight(SubSeq(s, 1, Len(s) - 1), cutset)
    ELSE s

\* strings.Trim
Trim(s, cutset) == TrimRight(TrimLeft(s, cutset), cutset)

RECURSIVE SplitFrom(_, _, _, _)
\* strings.Split on a one-character separator.
SplitFrom(s, sep, cur, out) ==
    IF s = << >> THEN Append(out, cur)
    ELSE IF Head(s) = sep
         THEN SplitFrom(Tail(s), sep, << >>, Append(out, cur))
         ELSE SplitFrom(Tail(s), sep, Append(cur, Head(s)), out)

Split(s, sep) == SplitFrom(s, sep, << >>, << >>)

Digits == {"0", "1", "2", "3", "4", "5", "6", "7", "8", "9"}

DigitVal(c) ==
    CASE c = "0" -> 0 [] c = "1" -> 1 [] c = "2" -> 2 [] c = "3" -> 3 [] c = "4" -> 4
      [] c = "5" -> 5 [] c = "6" -> 6 [] c = "7" -> 7 [] c = "8" -> 8 [] c = "9" -> 9

RECURSIVE DecimalValue(_, _)
DecimalValue(ds, acc) ==
    IF ds = << >> THEN acc ELSE DecimalValue(Tail(ds), 10 * acc + DigitVal(Head(ds)))

RECURSIVE StripZeros(_)
StripZeros(ds) == IF Len(ds) > 1 /\ Head(ds) = "0" THEN StripZeros(Tail(ds)) ELSE ds

\* (1 << 31) \div 10: the first nine digits of the cutoff of
\* strconv.ParseInt for bitSize 32; its last digit is 8.
Int32CutoffHigh == 214748364

\* The digits ds, read as a decimal number, compared with 1 << 31:
\* -1 below it, 0 equal, 1 above.
CompareCutoff(ds) ==
    LET sig == StripZeros(ds) IN
    IF Len(sig) < 10 THEN -1
    ELSE IF Len(sig) > 10 THEN 1
    ELSE LET high == DecimalValue(SubSeq(sig, 1, 9), 0)
             low == DigitVal(sig[10]) IN
         IF high # Int32CutoffHigh THEN (IF high < Int32CutoffHigh THEN -1 ELSE 1)
         ELSE IF low < 8 THEN -1 ELSE IF low = 8 THEN 0 ELSE 1

\* strconv.ParseInt(s, 10, 32): an optional sign, then decimal digits only;
\* a value out of the int32 range is an error too.
ParseInt(s) ==
    LET neg == s # << >> /\ Head(s) = "-"
        ds == IF s # << >> /\ Head(s) \in {"+", "-"} THEN Tail(s) ELSE s IN
    IF ds = << >> \/ \E i \in DOMAIN ds : ds[i] \notin Digits
    THEN [err |-> TRUE, val |-> 0]
    ELSE LET c == CompareCutoff(ds) IN
         IF (~neg /\ c >= 0) \/ (neg /\ c > 0)
         THEN [err |-> TRUE, val |-> 0]
         ELSE IF c = 0 THEN [err |-> FALSE, val |-> (0 - 2147483647) - 1]
         ELSE [err |-> FALSE,
               val |-> IF neg THEN 0 - DecimalValue(StripZeros(ds), 0)
                       ELSE DecimalValue(StripZeros(ds), 0)]

\* ------------------------------------------------------------------------
\* Pure functions of the dispatcher
\* ------------------------------------------------------------------------

\* buggyAPTVersion that takes 2.2 itself for a buggy version.
buggyAPTVersion_MinorInclusive(ua) ==
    LET fields == Fields(ua) IN
    IF Len(fields) < 3 THEN FALSE
    ELSE IF fields[1] # <<"D", "e", "b", "i", "a", "n">> \/ ~HasPrefix(fields[2], <<"A", "P", "T", "-", "H", "T", "T", "P">>)
    THEN FALSE
    ELSE LET parts == Split(Trim(fields[3], {"(", ")"}), ".") IN
         IF Len(parts) < 2 THEN FALSE
         ELSE LET maj == ParseInt(parts[1])
                  min == ParseInt(parts[2]) IN
              IF maj.err THEN FALSE
              ELSE IF maj.val < 2 THEN TRUE
              ELSE IF maj.val > 2 THEN FALSE
              ELSE IF min.err THEN FALSE
              ELSE min.val <= 2

\* buggyAPTVersion that reads a minor it cannot parse as 0.
buggyAPTVersion_MinorZero(ua) ==
    LET fields == Fields(ua) IN
    IF Len(fields) < 3 THEN FALSE
    ELSE IF fields[1] # <<"D", "e", "b", "i", "a", "n">> \/ ~HasPrefix(fields[2], <<"A", "P", "T", "-", "H", "T", "T", "P">>)
    THEN FALSE
    ELSE LET parts == Split(Trim(fields[3], {"(", ")"}), ".") IN
         IF Len(parts) < 2 THEN FALSE
         ELSE LET maj == ParseInt(parts[1])
                  min == ParseInt(parts[2]) IN
              IF maj.err THEN FALSE
              ELSE IF maj.val < 2 THEN TRUE
              ELSE IF maj.val > 2 THEN FALSE
              ELSE IF min.err THEN TRUE
              ELSE min.val < 2

\* githubRedirector.buggyAPTVersion on the User-Agent header.
buggyAPTVersion(ua) ==
    LET fields == Fields(ua) IN
    IF Len(fields) < 3 THEN FALSE
    ELSE IF fields[1] # <<"D", "e", "b", "i", "a", "n">> \/ ~HasPrefix(fields[2], <<"A", "P", "T", "-", "H", "T", "T", "P">>)
    THEN FALSE
    ELSE LET parts == Split(Trim(fields[3], {"(", ")"}), ".") IN
         IF Len(parts) < 2 THEN FALSE
         ELSE LET maj == ParseInt(parts[1])
                  min == ParseInt(parts[2]) IN
              IF maj.err THEN FALSE
              ELSE IF maj.val < 2 THEN TRUE
              ELSE IF maj.val > 2 THEN FALSE
              ELSE IF min.err THEN FALSE
              ELSE min.val < 2

\* The allow-list main hands to validateFilename.
validNames ==
    << <<"*", ".", "d", "e", "b">>,
       <<"I", "n", "R", "e", "l", "e", "a", "s", "e">>,
       <<"I", "n", "R", "e", "l", "e", "a", "s", "e", ".", "g", "z">>,
       <<"R", "e", "l", "e", "a", "s", "e">>,
       <<"R", "e", "l", "e", "a", "s", "e", ".", "g", "z">>,
       <<"R", "e", "l", "e", "a", "s", "e", ".", "g", "p", "g">>,
       <<"R", "e", "l", "e", "a", "s", "e", ".", "g", "p", "g", ".", "g", "z">>,
       <<"P", "a", "c", "k", "a", "g", "e", "s">>,
       <<"P", "a", "c", "k", "a", "g", "e", "s", ".", "g", "z">> >>

\* validateFilename that hands every request to next.
validateFilename_AlwaysNext(path) == TRUE

\* The test of validateFilename: some pattern matches the base of the path.
validateFilename(path) ==
    \E i \in DOMAIN validNames : Match(validNames[i], Base(path))

\* LookupFile that takes what PathUnescape returned even when it failed.
LookupFile_IgnoreErr(path) == PathUnescape(Base(path)).val

\* The name ServeHTTP looks up: the unescaped base, or the base itself when
\* it does not unescape.
LookupFile(path) ==
    LET file == Base(path)
        unesc == PathUnescape(file) IN
    IF unesc.err THEN file ELSE unesc.val

\* Requests: req.URL.Path and the User-Agent header.
pathTilde == <<"/", "d", "i", "s", "t", "s", "/", "a", "~", "b", ".", "d", "e", "b">>
pathDot == <<"/", "d", "i", "s", "t", "s", "/", "p", "o", "o", "l", "/", "a", ".", "b", ".", "d", "e", "b">>
pathEscaped == <<"/", "d", "i", "s", "t", "s", "/", "a", "%", "7", "E", "b", ".", "d", "e", "b">>
pathText == <<"/", "d", "i", "s", "t", "s", "/", "x", ".", "t", "x", "t">>

uaOld == <<"D", "e", "b", "i", "a", "n", " ", "A", "P", "T", "-", "H", "T", "T", "P", "/", "1", ".", "3", " ", "(", "1", ".", "6", ".", "1", "8", ")">>
uaNew == <<"D", "e", "b", "i", "a", "n", " ", "A", "P", "T", "-", "H", "T", "T", "P", "/", "1", ".", "3", " ", "(", "2", ".", "2", ".", "4", ")">>
uaCurl == <<"c", "u", "r", "l", "/", "8", ".", "0">>

Paths == {pathTilde, pathDot, pathEscaped, pathText}

UserAgents == {uaOld, uaNew, uaCurl}

\* ------------------------------------------------------------------------
\* State
\* ------------------------------------------------------------------------

VARIABLES
    rpc,        \* where Serve is: select, fetch, lock, swap, returned
    rerr,       \* the error Serve returned, "" while it runs
    timer,      \* armed, ready (a value waits in timer.C), drained, stopped
    cancelled,  \* ctx.Done() is closed
    doomed,     \* the request in flight was made with ctx already cancelled
    feedIdx,    \* index into releasesURLs of the feed being fetched
    newAssets,  \* Serve's local newAssets
    nonUnique,  \* Serve's local nonUnique
    assets,     \* r.assets, the published catalog
    mut,        \* r.mut: "free" or the holder
    gauge,      \* metricGithubRedirectAssets
    gen,        \* history: number of catalogs published so far
    published,  \* history: the catalog the last completed build published
    relCount,   \* history: per name, releases of this build holding it (2 = more than one)
    feedCount,  \* history: per name, feeds of this build holding it
    seen,       \* history: per name, the assets of that name in this build
    non2xx,     \* history: a feed of this build answered with a non-2xx status
    before,     \* history: r.assets and gen when this build started
    hpc,        \* where the request handler is: idle, serve, locked, tilde, unlock, decide, done
    reqPath,    \* req.URL.Path
    reqUA,      \* the User-Agent header, read by buggyAPTVersion
    file,       \* ServeHTTP's local file
    ok,         \* ServeHTTP's local ok
    hit,        \* ServeHTTP's local asset
    resp,       \* the response: status and Location written, calls of r.next, and what
                \* the request added to the redirect and byte counters and to the log
    obs,        \* history: what each lookup of this request saw
    ord,        \* SpecOrder: the feed bodies, the order they were listed in, the catalog built
    probe       \* SpecUA: a User-Agent header, its parts, what buggyAPTVersion said of it

vars == <<rpc, rerr, timer, cancelled, doomed, feedIdx, newAssets, nonUnique, assets, mut,
          gauge, gen, published, relCount, feedCount, seen, non2xx, before,
          hpc, reqPath, reqUA, file, ok, hit, resp, obs, ord, probe>>

\* The request handler's variables.
reqVars == <<hpc, reqPath, reqUA, file, ok, hit, resp, obs, ord, probe>>

\* The variables only Serve writes (r.mut apart).
refVars == <<rpc, rerr, timer, cancelled, doomed, feedIdx, newAssets, nonUnique, assets,
             gauge, gen, published, relCount, feedCount, seen, non2xx, before>>

buildHist == <<relCount, feedCount, seen, non2xx, before>>

AllNames == BuildNames \cup {nRelease}

\* ------------------------------------------------------------------------
\* What a body holds (used by the history variables only)
\* ------------------------------------------------------------------------

NamesOfRelease(rel) == {rel.Assets[i].Name : i \in DOMAIN rel.Assets}

ReleasesWith(rels, n) == Cardinality({i \in DOMAIN rels : n \in NamesOfRelease(rels[i])})

AssetsOfRelease(rel) == {rel.Assets[i] : i \in DOMAIN rel.Assets}

AssetsNamed(rels, n) ==
    {a \in UNION {AssetsOfRelease(rels[i]) : i \in DOMAIN rels} : a.Name = n}

Min(a, b) == IF a < b THEN a ELSE b

\* ------------------------------------------------------------------------
\* The refresher: githubRedirector.Serve
\* ------------------------------------------------------------------------

Start ==
    /\ rpc = "select"
    /\ rerr = ""
    /\ timer = "armed"
    /\ cancelled = FALSE
    /\ doomed = FALSE
    /\ feedIdx = 0
    /\ newAssets = << >>
    /\ nonUnique = {}
    /\ assets = << >>
    /\ mut = "free"
    /\ gauge = 0
    /\ gen = 0
    /\ published = << >>
    /\ relCount = [n \in AllNames |-> 0]
    /\ feedCount = [n \in AllNames |-> 0]
    /\ seen = [n \in AllNames |-> {}]
    /\ non2xx = FALSE
    /\ before = [assets |-> << >>, gen |-> 0]
    /\ hpc = "idle"
    /\ reqPath = << >>
    /\ reqUA = << >>
    /\ file = << >>
    /\ ok = FALSE
    /\ hit = asset(<< >>, "", 0)
    /\ resp = [status |-> 0, location |-> "", next |-> 0, redirects |-> 0, bytes |-> 0, log |-> ""]
    /\ obs = << >>

\* No User-Agent is under test.
NoProbe == [ua |-> << >>, applied |-> FALSE, flagged |-> FALSE]

Init ==
    /\ Start
    /\ ord = [bodies |-> << >>, perm |-> << >>, built |-> FALSE, out |-> << >>]
    /\ probe = NoProbe

\* The runtime delivers the timer's tick to timer.C.
TimerExpire ==
    /\ timer = "armed"
    /\ timer' = "ready"
    /\ UNCHANGED <<doomed, rpc, rerr, cancelled, feedIdx, newAssets, nonUnique, assets, mut,
                   gauge, gen, published, buildHist,
                   reqVars>>

\* The outer supervisor cancels ctx.
Cancel ==
    /\ ~cancelled
    /\ cancelled' = TRUE
    /\ UNCHANGED <<doomed, rpc, rerr, timer, feedIdx, newAssets, nonUnique, assets, mut,
                   gauge, gen, published, buildHist,
                   reqVars>>

\* SelectTimer that takes r.mut for the whole build.
SelectTimer_LockedBuild ==
    /\ rpc = "select"
    /\ timer = "ready"
    /\ gen < MaxBuilds
    /\ mut = "free"
    /\ mut' = "Serve"
    /\ timer' = "drained"
    /\ newAssets' = << >>
    /\ nonUnique' = {}
    /\ feedIdx' = 1
    /\ rpc' = "fetch"
    /\ before' = [assets |-> assets, gen |-> gen]
    /\ doomed' = cancelled
    /\ UNCHANGED <<rerr, cancelled, assets, gauge, gen, published,
                   relCount, feedCount, seen, non2xx,
                   reqVars>>

\* SelectTimer that resets the timer when the build starts.
SelectTimer_Rearm ==
    /\ rpc = "select"
    /\ timer = "ready"
    /\ gen < MaxBuilds
    /\ timer' = "armed"
    /\ newAssets' = << >>
    /\ nonUnique' = {}
    /\ feedIdx' = 1
    /\ rpc' = "fetch"
    /\ before' = [assets |-> assets, gen |-> gen]
    /\ doomed' = cancelled
    /\ UNCHANGED <<rerr, cancelled, assets, mut, gauge, gen, published,
                   relCount, feedCount, seen, non2xx,
                   reqVars>>

\* case <-timer.C: a build starts with fresh maps and the first feed's request.
SelectTimer ==
    /\ rpc = "select"
    /\ timer = "ready"
    /\ gen < MaxBuilds
    /\ timer' = "drained"
    /\ newAssets' = << >>
    /\ nonUnique' = {}
    /\ feedIdx' = 1
    /\ rpc' = "fetch"
    /\ before' = [assets |-> assets, gen |-> gen]
    /\ doomed' = cancelled
    /\ UNCHANGED <<rerr, cancelled, assets, mut, gauge, gen, published,
                   relCount, feedCount, seen, non2xx,
                   reqVars>>

\* SelectDone that goes round the loop again instead of returning.
SelectDone_KeepWaiting ==
    /\ rpc = "select"
    /\ cancelled
    /\ rpc' = "select"
    /\ rerr' = rerr
    /\ timer' = timer
    /\ UNCHANGED <<doomed, cancelled, feedIdx, newAssets, nonUnique, assets, mut, gauge, gen,
                   published, buildHist,
                   reqVars>>

\* case <-ctx.Done(): return ctx.Err(), and the deferred timer.Stop().
SelectDone ==
    /\ rpc = "select"
    /\ cancelled
    /\ rpc' = "returned"
    /\ rerr' = "context canceled"
    /\ timer' = "stopped"
    /\ UNCHANGED <<doomed, cancelled, feedIdx, newAssets, nonUnique, assets, mut, gauge, gen,
                   published, buildHist,
                   reqVars>>

\* ReturnErr that first publishes what the build has collected so far.
ReturnErr_PublishPartial(e) ==
    /\ rpc' = "returned"
    /\ rerr' = e
    /\ timer' = "stopped"
    /\ assets' = newAssets
    /\ doomed' = FALSE
    /\ UNCHANGED <<cancelled, feedIdx, newAssets, nonUnique, mut, gauge, gen,
                   published, relCount, feedCount, seen, before,
                   reqVars>>

\* ReturnErr that logs the error and waits for the next interval.
ReturnErr_Retry(e) ==
    /\ rpc' = "select"
    /\ rerr' = e
    /\ timer' = "armed"
    /\ doomed' = FALSE
    /\ UNCHANGED <<cancelled, feedIdx, newAssets, nonUnique, assets, mut, gauge, gen,
                   published, relCount, feedCount, seen, before,
                   reqVars>>

\* Serve returns err from inside the build.
ReturnErr(e) ==
    /\ rpc' = "returned"
    /\ rerr' = e
    /\ timer' = "stopped"
    /\ doomed' = FALSE
    /\ UNCHANGED <<cancelled, feedIdx, newAssets, nonUnique, assets, mut, gauge, gen,
                   published, relCount, feedCount, seen, before,
                   reqVars>>

\* http.DefaultClient.Do fails: no connection, or ctx is cancelled.
FetchTransportError ==
    /\ rpc = "fetch"
    /\ non2xx' = non2xx
    /\ ReturnErr(IF cancelled THEN "context canceled" ELSE "transport")

\* A response arrives whose body is not a JSON array of releases.
FetchDecodeError ==
    /\ rpc = "fetch"
    /\ ~doomed
    /\ \E status \in HTTPStatuses :
          non2xx' = (non2xx \/ status # 200)
    /\ ReturnErr("decode")

\* FetchDecoded that merges each feed straight into r.assets.
FetchDecoded_InPlace(Bodies) ==
    /\ rpc = "fetch"
    /\ ~doomed
    /\ \E status \in HTTPStatuses, rels \in Bodies :
          LET fa == fetchGithubReleaseAssets(rels) IN
          \E order \in KeyOrders(fa) :
             LET st == MergeFeed([newAssets |-> newAssets, nonUnique |-> nonUnique],
                                 fa, order) IN
             /\ newAssets' = st.newAssets
             /\ assets' = st.newAssets
             /\ nonUnique' = st.nonUnique
             /\ non2xx' = (non2xx \/ status # 200)
             /\ relCount' = [n \in AllNames |->
                                Min(2, relCount[n] + ReleasesWith(rels, n))]
             /\ feedCount' = [n \in AllNames |->
                                feedCount[n] + (IF ReleasesWith(rels, n) > 0 THEN 1 ELSE 0)]
             /\ seen' = [n \in AllNames |-> seen[n] \cup AssetsNamed(rels, n)]
    /\ IF feedIdx < Len(releasesURLs)
       THEN /\ feedIdx' = feedIdx + 1
            /\ rpc' = "fetch"
            /\ doomed' = cancelled
       ELSE /\ feedIdx' = 0
            /\ rpc' = "lock"
            /\ doomed' = FALSE
    /\ UNCHANGED <<rerr, timer, cancelled, mut, gauge, gen, published, before,
                   reqVars>>

\* A response arrives whose body decodes to rels: the feed's map is built and
\* merged into newAssets, and the next feed is requested.
FetchDecoded(Bodies) ==
    /\ rpc = "fetch"
    /\ ~doomed
    /\ \E status \in HTTPStatuses, rels \in Bodies :
          LET fa == fetchGithubReleaseAssets(rels) IN
          \E order \in KeyOrders(fa) :
             LET st == MergeFeed([newAssets |-> newAssets, nonUnique |-> nonUnique],
                                 fa, order) IN
             /\ newAssets' = st.newAssets
             /\ nonUnique' = st.nonUnique
             /\ non2xx' = (non2xx \/ status # 200)
             /\ relCount' = [n \in AllNames |->
                                Min(2, relCount[n] + ReleasesWith(rels, n))]
             /\ feedCount' = [n \in AllNames |->
                                feedCount[n] + (IF ReleasesWith(rels, n) > 0 THEN 1 ELSE 0)]
             /\ seen' = [n \in AllNames |-> seen[n] \cup AssetsNamed(rels, n)]
    /\ IF feedIdx < Len(releasesURLs)
       THEN /\ feedIdx' = feedIdx + 1
            /\ rpc' = "fetch"
            /\ doomed' = cancelled
       ELSE /\ feedIdx' = 0
            /\ rpc' = "lock"
            /\ doomed' = FALSE
    /\ UNCHANGED <<rerr, timer, cancelled, assets, mut, gauge, gen, published, before,
                   reqVars>>

\* r.mut.Lock() in Serve.
ServeLock ==
    /\ rpc = "lock"
    /\ mut = "free"
    /\ mut' = "Serve"
    /\ rpc' = "swap"
    /\ UNCHANGED <<doomed, rerr, timer, cancelled, feedIdx, newAssets, nonUnique, assets,
                   gauge, gen, published, buildHist,
                   reqVars>>

\* ServeSwap that copies newAssets over the entries r.assets already holds.
ServeSwap_Merge ==
    /\ rpc = "swap"
    /\ assets' = [x \in DOMAIN assets \cup DOMAIN newAssets |->
                      IF x \in DOMAIN newAssets THEN newAssets[x] ELSE assets[x]]
    /\ mut' = "free"
    /\ gauge' = Cardinality(DOMAIN assets')
    /\ timer' = "armed"
    /\ gen' = gen + 1
    /\ published' = assets'
    /\ rpc' = "select"
    /\ newAssets' = << >>
    /\ nonUnique' = {}
    /\ relCount' = [n \in AllNames |-> 0]
    /\ feedCount' = [n \in AllNames |-> 0]
    /\ seen' = [n \in AllNames |-> {}]
    /\ non2xx' = FALSE
    /\ UNCHANGED <<doomed, rerr, cancelled, feedIdx, before,
                   reqVars>>

\* r.assets = newAssets; r.mut.Unlock(); the gauge; timer.Reset.
ServeSwap ==
    /\ rpc = "swap"
    /\ assets' = newAssets
    /\ mut' = "free"
    /\ gauge' = Cardinality(DOMAIN newAssets)
    /\ timer' = "armed"
    /\ gen' = gen + 1
    /\ published' = newAssets
    /\ rpc' = "select"
    /\ newAssets' = << >>
    /\ nonUnique' = {}
    /\ relCount' = [n \in AllNames |-> 0]
    /\ feedCount' = [n \in AllNames |-> 0]
    /\ seen' = [n \in AllNames |-> {}]
    /\ non2xx' = FALSE
    /\ UNCHANGED <<doomed, rerr, cancelled, feedIdx, before,
                   reqVars>>

NextBuild ==
    \/ TimerExpire
    \/ SelectTimer
    \/ FetchTransportError
    \/ FetchDecodeError
    \/ FetchDecoded(BuildBodies)
    \/ ServeLock
    \/ ServeSwap

SpecBuild == Init /\ [][NextBuild]_vars

\* ------------------------------------------------------------------------
\* The request path: validateFilename, then githubRedirector.ServeHTTP
\* ------------------------------------------------------------------------

\* What one lookup of r.assets saw.
Observation == [gen |-> gen, whole |-> assets = published, catalog |-> assets]

NoResponse == [status |-> 0, location |-> "", next |-> 0, redirects |-> 0, bytes |-> 0, log |-> ""]

\* A request arrives and validateFilename runs: it hands the request to
\* ServeHTTP when a pattern matches, and answers 404 otherwise.
RequestFrom(PathSet) ==
    /\ hpc = "idle"
    /\ \E p \in PathSet :
          /\ reqPath' = p
          /\ IF validateFilename(p)
             THEN /\ hpc' = "serve"
                  /\ resp' = resp
             ELSE /\ hpc' = "done"
                  /\ resp' = [status |-> 404, location |-> "", next |-> 0, redirects |-> 0, bytes |-> 0, log |-> ""]
    /\ UNCHANGED <<reqUA, file, ok, hit, obs, mut, refVars, ord, probe>>

\* The requests of Spec.
Request == RequestFrom(Paths)

\* ServeHTTP computes file and takes r.mut.
ServeHTTPLock ==
    /\ hpc = "serve"
    /\ mut = "free"
    /\ mut' = "ServeHTTP"
    /\ file' = LookupFile(reqPath)
    /\ hpc' = "locked"
    /\ UNCHANGED <<reqPath, reqUA, ok, hit, obs, resp, refVars, ord, probe>>

\* ServeHTTPLookup that tries the name with "~" made "." before the name.
ServeHTTPLookup_TildeFirst ==
    /\ hpc = "locked"
    /\ LET key == ReplaceFirst(file, "~", ".") IN
          /\ ok' = (key \in DOMAIN assets \/ file \in DOMAIN assets)
          /\ hit' = IF key \in DOMAIN assets THEN assets[key]
                    ELSE IF file \in DOMAIN assets THEN assets[file]
                    ELSE asset(<< >>, "", 0)
          /\ hpc' = IF key \in DOMAIN assets \/ file \in DOMAIN assets
                    THEN "unlock" ELSE "tilde"
    /\ obs' = Append(obs, Observation)
    /\ UNCHANGED <<reqPath, reqUA, file, resp, mut, refVars, ord, probe>>

\* ServeHTTPLookup that gives r.mut up after the first lookup.
ServeHTTPLookup_Unlocking ==
    /\ hpc = "locked"
    /\ ok' = (file \in DOMAIN assets)
    /\ hit' = IF file \in DOMAIN assets THEN assets[file] ELSE asset(<< >>, "", 0)
    /\ obs' = Append(obs, Observation)
    /\ hpc' = IF file \in DOMAIN assets THEN "unlock" ELSE "tilde"
    /\ mut' = "free"
    /\ UNCHANGED <<reqPath, reqUA, file, resp, refVars, ord, probe>>

\* asset, ok := r.assets[file]
ServeHTTPLookup ==
    /\ hpc = "locked"
    /\ ok' = (file \in DOMAIN assets)
    /\ hit' = IF file \in DOMAIN assets THEN assets[file] ELSE asset(<< >>, "", 0)
    /\ obs' = Append(obs, Observation)
    /\ hpc' = IF file \in DOMAIN assets THEN "unlock" ELSE "tilde"
    /\ UNCHANGED <<reqPath, reqUA, file, resp, mut, refVars, ord, probe>>

\* ServeHTTPLookupTilde that replaces every "~" of the name.
ServeHTTPLookupTilde_ReplaceAll ==
    /\ hpc = "tilde"
    /\ LET key == [i \in DOMAIN file |-> IF file[i] = "~" THEN "." ELSE file[i]] IN
          /\ ok' = (key \in DOMAIN assets)
          /\ hit' = IF key \in DOMAIN assets THEN assets[key] ELSE asset(<< >>, "", 0)
    /\ obs' = Append(obs, Observation)
    /\ hpc' = "unlock"
    /\ UNCHANGED <<reqPath, reqUA, file, resp, mut, refVars, ord, probe>>

\* asset, ok = r.assets[strings.Replace(file, "~", ".", 1)]
ServeHTTPLookupTilde ==
    /\ hpc = "tilde"
    /\ LET key == ReplaceFirst(file, "~", ".") IN
          /\ ok' = (key \in DOMAIN assets)
          /\ hit' = IF key \in DOMAIN assets THEN assets[key] ELSE asset(<< >>, "", 0)
    /\ obs' = Append(obs, Observation)
    /\ hpc' = "unlock"
    /\ UNCHANGED <<reqPath, reqUA, file, resp, mut, refVars, ord, probe>>

\* r.mut.Unlock() in ServeHTTP.
ServeHTTPUnlock ==
    /\ hpc = "unlock"
    /\ mut' = "free"
    /\ hpc' = "decide"
    /\ UNCHANGED <<reqPath, reqUA, file, ok, hit, obs, resp, refVars, ord, probe>>

\* ServeHTTPRespond without the buggyAPTVersion test.
ServeHTTPRespond_NoCompat ==
    /\ hpc = "decide"
    /\ \E ua \in UserAgents :
          /\ reqUA' = ua
          /\ resp' = IF ~ok THEN [status |-> 0, location |-> "", next |-> 1, redirects |-> 0, bytes |-> 0, log |-> ""]
                     ELSE [status |-> StatusTemporaryRedirect,
                           location |-> hit.BrowserURL, next |-> 0,
                                redirects |-> 1, bytes |-> hit.Size, log |-> ""]
    /\ hpc' = "done"
    /\ UNCHANGED <<reqPath, file, ok, hit, obs, mut, refVars, ord, probe>>

\* ServeHTTPRespond that reads r.assets[file] again for the Location.
ServeHTTPRespond_Reread ==
    /\ hpc = "decide"
    /\ \E ua \in UserAgents :
          /\ reqUA' = ua
          /\ resp' = IF ~ok THEN [status |-> 0, location |-> "", next |-> 1, redirects |-> 0, bytes |-> 0, log |-> ""]
                     ELSE IF buggyAPTVersion(ua)
                          THEN [status |-> 0, location |-> "", next |-> 1, redirects |-> 0, bytes |-> 0,
                                log |-> "serving proxied for buggy APT"]
                          ELSE [status |-> StatusTemporaryRedirect,
                                location |-> IF file \in DOMAIN assets
                                             THEN assets[file].BrowserURL
                                             ELSE hit.BrowserURL,
                                next |-> 0,
                                redirects |-> 1, bytes |-> hit.Size, log |-> ""]
    /\ hpc' = "done"
    /\ UNCHANGED <<reqPath, file, ok, hit, obs, mut, refVars, ord, probe>>

\* The rest of ServeHTTP: the request goes to r.next when the name was not
\* found or the client is a buggy APT, and is redirected otherwise.
ServeHTTPRespond ==
    /\ hpc = "decide"
    /\ \E ua \in UserAgents :
          /\ reqUA' = ua
          /\ resp' = IF ~ok THEN [status |-> 0, location |-> "", next |-> 1, redirects |-> 0, bytes |-> 0, log |-> ""]
                     ELSE IF buggyAPTVersion(ua)
                          THEN [status |-> 0, location |-> "", next |-> 1, redirects |-> 0, bytes |-> 0,
                                log |-> "serving proxied for buggy APT"]
                          ELSE [status |-> StatusTemporaryRedirect,
                                location |-> hit.BrowserURL, next |-> 0,
                                redirects |-> 1, bytes |-> hit.Size, log |-> ""]
    /\ hpc' = "done"
    /\ UNCHANGED <<reqPath, file, ok, hit, obs, mut, refVars, ord, probe>>

\* The handler returns; the connection serves its next request.
RequestDone ==
    /\ hpc = "done"
    /\ hpc' = "idle"
    /\ reqPath' = << >>
    /\ reqUA' = << >>
    /\ file' = << >>
    /\ ok' = FALSE
    /\ hit' = asset(<< >>, "", 0)
    /\ obs' = << >>
    /\ resp' = NoResponse
    /\ UNCHANGED <<mut, refVars, ord, probe>>

Next ==
    \/ TimerExpire
    \/ Cancel
    \/ SelectTimer
    \/ SelectDone
    \/ FetchTransportError
    \/ FetchDecodeError
    \/ FetchDecoded(ServeBodies)
    \/ ServeLock
    \/ ServeSwap
    \/ Request
    \/ ServeHTTPLock
    \/ ServeHTTPLookup
    \/ ServeHTTPLookupTilde
    \/ ServeHTTPUnlock
    \/ ServeHTTPRespond
    \/ RequestDone

Spec == Init /\ [][Next]_vars

\* ------------------------------------------------------------------------
\* The build as a function of the list of feeds
\* ------------------------------------------------------------------------

RECURSIVE MergeAll(_, _, _)
\* The loop of Serve over the feeds, given each feed's map and the order in
\* which range visits its keys.
MergeAll(st, maps, orders) ==
    IF maps = << >> THEN st
    ELSE MergeAll(MergeFeed(st, Head(maps), Head(orders)), Tail(maps), Tail(orders))

\* The catalog a build makes of the decoded bodies, visiting keys as orders says.
BuildCatalog(bodies, orders) ==
    MergeAll([newAssets |-> << >>, nonUnique |-> {}],
             [i \in DOMAIN bodies |-> fetchGithubReleaseAssets(bodies[i])],
             orders).newAssets

\* The ways range may visit the keys of each body's map.
OrdersOf(bodies) ==
    {os \in [DOMAIN bodies ->
                UNION {KeyOrders(fetchGithubReleaseAssets(bodies[i])) : i \in DOMAIN bodies}] :
        \A i \in DOMAIN bodies : os[i] \in KeyOrders(fetchGithubReleaseAssets(bodies[i]))}

\* The permutations of 1..n.
Perms(n) == {p \in [1..n -> 1..n] : \A i, j \in 1..n : i # j => p[i] # p[j]}

\* Feed bodies of SpecOrder: at most one release.
OrderBodies == {b \in BuildBodies : Len(b) <= 1}

InitOrder ==
    /\ Start
    /\ ord \in [bodies : [DOMAIN releasesURLs -> OrderBodies],
                 perm : {<< >>}, built : {FALSE}, out : {<< >>}]
    /\ probe = NoProbe

\* A build over the same feeds listed in the order perm.
BuildPermuted ==
    /\ ~ord.built
    /\ \E p \in Perms(Len(releasesURLs)) :
          LET listed == [i \in DOMAIN p |-> ord.bodies[p[i]]] IN
          \E os \in OrdersOf(listed) :
             ord' = [ord EXCEPT !.perm = p, !.built = TRUE,
                                !.out = BuildCatalog(listed, os)]
    /\ UNCHANGED <<mut, refVars, hpc, reqPath, reqUA, file, ok, hit, resp, obs, probe>>

NextOrder == BuildPermuted

SpecOrder == InitOrder /\ [][NextOrder]_vars

\* ------------------------------------------------------------------------
\* buggyAPTVersion over User-Agent headers
\* ------------------------------------------------------------------------

\* A component of a version: its text, and the number it writes if it is one.
Num(t, v) == [text |-> t, num |-> TRUE, val |-> v]

Word(t) == [text |-> t, num |-> FALSE, val |-> 0]

Majors == {Num(<<"0">>, 0), Num(<<"1">>, 1), Num(<<"2">>, 2), Num(<<"3">>, 3),
           Num(<<"0", "2">>, 2), Word(<<"x">>), Word(<< >>)}

Minors == {Num(<<"0">>, 0), Num(<<"1">>, 1), Num(<<"2">>, 2), Num(<<"4">>, 4),
           Num(<<"6">>, 6), Word(<<"x">>), Word(<< >>)}

Patches == {Num(<<"4">>, 4), Num(<<"1", "1">>, 11), Num(<<"1", "3">>, 13),
            Num(<<"1", "8">>, 18)}

\* Versions of one, two and three components.
Versions ==
    {<<a>> : a \in Majors} \cup (Majors \X Minors) \cup (Majors \X Minors \X Patches)

Labels == {<<"D", "e", "b", "i", "a", "n">>, <<"U", "b", "u", "n", "t", "u">>}

Tags == {<<"A", "P", "T", "-", "H", "T", "T", "P", "/", "1", ".", "3">>, <<"A", "P", "T", "-", "H", "T", "T", "P">>, <<"A", "P", "T", "/", "1", ".", "3">>}

\* The parts a header is written from: how many fields it has, the first
\* and second field, the version of the third and whether it stands in
\* parentheses, and whether a fourth field follows.
UAParts ==
    [fields : 1..3, label : Labels, tag : Tags, comps : Versions,
     paren : BOOLEAN, extra : BOOLEAN]

RECURSIVE JoinDots(_)
JoinDots(cs) ==
    IF Len(cs) = 1 THEN cs[1].text
    ELSE cs[1].text \o <<".">> \o JoinDots(Tail(cs))

VersionField(p) ==
    IF p.paren THEN <<"(">> \o JoinDots(p.comps) \o <<")">> ELSE JoinDots(p.comps)

\* The header written from the parts.
Header(p) ==
    IF p.fields = 1 THEN p.label
    ELSE IF p.fields = 2 THEN p.label \o <<" ">> \o p.tag
    ELSE p.label \o <<" ">> \o p.tag \o <<" ">> \o VersionField(p)
         \o (IF p.extra THEN <<" ", "n", "o", "n", "-", "i", "n", "t", "e", "r", "a", "c", "t", "i", "v", "e">> ELSE << >>)

InitUA ==
    /\ Start
    /\ ord = [bodies |-> << >>, perm |-> << >>, built |-> FALSE, out |-> << >>]
    /\ \E p \in UAParts :
          probe = [ua |-> Header(p), applied |-> FALSE, flagged |-> FALSE, parts |-> p]

\* ServeHTTP's call of buggyAPTVersion on the request's User-Agent.
Classify ==
    /\ ~probe.applied
    /\ probe' = [probe EXCEPT !.applied = TRUE, !.flagged = buggyAPTVersion(probe.ua)]
    /\ UNCHANGED <<mut, refVars, hpc, reqPath, reqUA, file, ok, hit, resp, obs, ord>>

NextUA == Classify

SpecUA == InitUA /\ [][NextUA]_vars

\* ------------------------------------------------------------------------
\* Lookups against a published catalog
\* ------------------------------------------------------------------------

nTwoDot == <<"a", ".", "b", ".", "c", ".", "d", "e", "b">>
nOneTilde == <<"a", ".", "b", "~", "c", ".", "d", "e", "b">>

pathTwoTilde == <<"/", "d", "i", "s", "t", "s", "/", "a", "~", "b", "~", "c", ".", "d", "e", "b">>
nPercent == <<"a", "%", "z", "b", ".", "d", "e", "b">>

pathPercent == <<"/", "d", "i", "s", "t", "s", "/", "a", "%", "z", "b", ".", "d", "e", "b">>
pathRelease == <<"/", "d", "i", "s", "t", "s", "/", "R", "e", "l", "e", "a", "s", "e">>

LookupNames == {nDot, nTilde, nTwoDot, nOneTilde, nRelease, nPercent}

LookupPaths == Paths \cup {pathTwoTilde, pathRelease, pathPercent}

\* What a feed may say of a name: nothing, or an asset at one of two URLs.
LookupOptions == {<<"", 0>>, <<urlA, 10>>, <<urlB, 20>>}

LookupNameSeq == <<nDot, nTilde, nTwoDot, nOneTilde, nRelease>>

RECURSIVE AssetsChosen(_, _)
\* The assets of a release that holds LookupNameSeq[j], for j >= i, as c says.
AssetsChosen(c, i) ==
    IF i > Len(LookupNameSeq) THEN << >>
    ELSE (IF c[i][1] = "" THEN << >>
          ELSE <<asset(LookupNameSeq[i], c[i][1], c[i][2])>>)
         \o AssetsChosen(c, i + 1)

\* Feed bodies of one release over LookupNames.
LookupBodies ==
    {<<release(AssetsChosen(c, 1))>> : c \in [DOMAIN LookupNameSeq -> LookupOptions]}

\* Bodies of the second feed: nothing, or one release holding a%zb.deb.
LookupBodies2 == {<< >>, <<release(<<asset(nPercent, urlA, 10)>>)>>}

\* The catalogs Serve builds when the first feed answers a body of
\* LookupBodies, the second one of LookupBodies2, and the third [].
LookupCatalogs ==
    UNION {{BuildCatalog(<<b, c, << >> >>, <<o, p, << >> >>) :
               o \in KeyOrders(fetchGithubReleaseAssets(b)),
               p \in KeyOrders(fetchGithubReleaseAssets(c))} :
           b \in LookupBodies, c \in LookupBodies2}

\* The state after the first build published a catalog.
InitLookup ==
    /\ rpc = "select"
    /\ rerr = ""
    /\ timer = "armed"
    /\ cancelled = FALSE
    /\ doomed = FALSE
    /\ feedIdx = 0
    /\ newAssets = << >>
    /\ nonUnique = {}
    /\ assets \in LookupCatalogs
    /\ mut = "free"
    /\ gauge = Cardinality(DOMAIN assets)
    /\ gen = 1
    /\ published = assets
    /\ relCount = [n \in AllNames |-> 0]
    /\ feedCount = [n \in AllNames |-> 0]
    /\ seen = [n \in AllNames |-> {}]
    /\ non2xx = FALSE
    /\ before = [assets |-> << >>, gen |-> 0]
    /\ hpc = "idle"
    /\ reqPath = << >>
    /\ reqUA = << >>
    /\ file = << >>
    /\ ok = FALSE
    /\ hit = asset(<< >>, "", 0)
    /\ resp = NoResponse
    /\ obs = << >>
    /\ ord = [bodies |-> << >>, perm |-> << >>, built |-> FALSE, out |-> << >>]
    /\ probe = NoProbe

NextLookup ==
    \/ RequestFrom(LookupPaths)
    \/ ServeHTTPLock
    \/ ServeHTTPLookup
    \/ ServeHTTPLookupTilde
    \/ ServeHTTPUnlock
    \/ ServeHTTPRespond
    \/ RequestDone

SpecLookup == InitLookup /\ [][NextLookup]_vars

\* ------------------------------------------------------------------------
\* Serve under cancellation
\* ------------------------------------------------------------------------

\* A step of the goroutine that runs Serve.
ServeStep ==
    \/ SelectTimer
    \/ SelectDone
    \/ FetchTransportError
    \/ FetchDecodeError
    \/ FetchDecoded(ServeBodies)
    \/ ServeLock
    \/ ServeSwap

NextCancel ==
    \/ TimerExpire
    \/ Cancel
    \/ ServeStep

\* Once ctx is cancelled the goroutine keeps taking steps: select finds
\* ctx.Done() ready, and the transport gives up the request in flight.
SpecCancel == Init /\ [][NextCancel]_vars /\ WF_vars(cancelled /\ ServeStep)

\* ------------------------------------------------------------------------
\* Properties
\* ------------------------------------------------------------------------

\* The build is past its last fetch: newAssets is the catalog it made.
BuildComplete == rpc \in {"lock", "swap"}

\* Serve returned an error from inside a build.
BuildFailed == rpc = "returned" /\ feedIdx >= 1

\* The final path segment matches a pattern of the allow-list.
AllowListed(path) == \E i \in DOMAIN validNames : Match(validNames[i], Base(path))

\* The name the request asks for, and that name with its first "~" made ".".
Wanted(path) == IF PathUnescape(Base(path)).err THEN Base(path)
                ELSE PathUnescape(Base(path)).val

WantedTilde(path) == ReplaceFirst(Wanted(path), "~", ".")

\* The snapshot the request's lookup observed.
Snapshot == obs[1].catalog

\* The key under which the observed snapshot answers the request.
AnsweringKey == IF Wanted(reqPath) \in DOMAIN Snapshot THEN Wanted(reqPath)
                ELSE WantedTilde(reqPath)

\* The response redirects the client.
IsRedirect == resp.location # "" \/ (resp.status >= 300 /\ resp.status < 400)

\* C1: every lookup of a request (the direct one and the tilde one) is
\* answered from one published generation of the catalog: each sees a whole
\* published catalog, and all see the same generation.
C1_SnapshotAtomicity ==
    \A i \in DOMAIN obs :
        /\ obs[i].whole
        /\ obs[i].gen = obs[1].gen
        /\ obs[i].catalog = obs[1].catalog

\* C1 witness: a finished build waits for r.mut while a request that missed
\* on its direct lookup has its tilde lookup still to do.
C1_Witness ==
    /\ hpc = "tilde"
    /\ rpc = "lock"
    /\ newAssets # assets
    /\ WantedTilde(reqPath) \in DOMAIN newAssets

\* C2: at every point of a build, a name that more than one feed of the
\* build holds is absent from newAssets, however many feeds hold it.
C2_CollisionExclusion ==
    rpc \in {"fetch", "lock", "swap"} =>
        \A n \in AllNames : feedCount[n] >= 2 => n \notin DOMAIN newAssets

\* C2 witness: a build ends with one name held by three feeds and another by two.
C2_Witness ==
    /\ BuildComplete
    /\ feedCount[nDot] = 3
    /\ feedCount[nTilde] = 2
    /\ newAssets = << >>

\* C3: a name that two or more releases of a build hold, in the same feed or
\* in different feeds, is absent from the catalog the build makes.
C3_ReleaseCollisionExclusion ==
    BuildComplete =>
        \A n \in AllNames : relCount[n] >= 2 => n \notin DOMAIN newAssets

\* C4: a name that exactly one release of a build holds is in the catalog
\* the build makes, mapped to an asset of that name of that release.
C4_UniqueNameMapped ==
    BuildComplete =>
        \A n \in AllNames :
            relCount[n] = 1 => /\ n \in DOMAIN newAssets
                               /\ newAssets[n] \in seen[n]

\* C4 witness: a build ends with one name in exactly one release, of the
\* last feed, and the other name in several.
C4_Witness ==
    /\ BuildComplete
    /\ relCount[nTilde] = 1
    /\ relCount[nDot] = 2
    /\ seen[nTilde] = {asset(nTilde, urlB, 20)}
    /\ nonUnique = {nDot}

\* C5: the catalog built from the feeds listed in any order is the catalog
\* built from them in the configured order.
C5_FeedOrderIndependent ==
    ord.built =>
        \A os \in OrdersOf(ord.bodies) : ord.out = BuildCatalog(ord.bodies, os)

\* C5 witness: a build over the feeds in the order 3, 1, 2, where the first
\* two feeds hold the same name and the third holds another.
C5_Witness ==
    /\ ord.built
    /\ ord.perm = <<3, 1, 2>>
    /\ nDot \in DOMAIN fetchGithubReleaseAssets(ord.bodies[1])
    /\ nDot \in DOMAIN fetchGithubReleaseAssets(ord.bodies[2])
    /\ DOMAIN ord.out = {nTilde}

\* C6: while a build runs and after it failed, the published catalog is the
\* one published before the build started; the failed build publishes nothing.
C6_FailedBuildPublishesNothing ==
    (rpc = "fetch" \/ BuildFailed) =>
        /\ assets = before.assets
        /\ gen = before.gen
        /\ published = before.assets

\* C6 witness: the third feed of a build does not decode after the first two
\* gave assets, and the catalog of the build before stays published.
C6_Witness ==
    /\ BuildFailed
    /\ rerr = "decode"
    /\ feedIdx = 3
    /\ DOMAIN newAssets = {nDot, nTilde}
    /\ DOMAIN assets = {nDot}
    /\ gen = 1

\* C7: a build that got a non-2xx answer from a feed does not publish.
C7_Non2xxFailsBuild ==
    [][(rpc = "swap" /\ rpc' = "select") => ~non2xx]_vars

\* C8: a request the filter accepted ends either redirected with 307 and
\* r.next not called, or handed to r.next once with nothing written; it is
\* redirected exactly when the observed snapshot holds its name (as asked or
\* with the first "~" made ".") and the client is not a buggy APT.
C8_DispatchDecision ==
    (hpc = "done" /\ AllowListed(reqPath)) =>
        /\ \/ resp.status = 307 /\ resp.next = 0
           \/ resp.status = 0 /\ resp.next = 1 /\ resp.location = ""
        /\ resp.status = 307 <=>
              /\ \/ Wanted(reqPath) \in DOMAIN Snapshot
                 \/ WantedTilde(reqPath) \in DOMAIN Snapshot
              /\ ~buggyAPTVersion(reqUA)

\* C8 witness: a request whose name is in the snapshot only with "~" made
\* "." comes from a buggy APT and goes to r.next.
C8_Witness ==
    /\ hpc = "done"
    /\ reqPath = pathEscaped
    /\ reqUA = uaOld
    /\ Len(obs) = 2
    /\ ok
    /\ resp.next = 1

\* C9: a redirect has status 307 and the Location is the download URL the
\* observed snapshot, a published one, gives for the name looked up.
C9_RedirectLocation ==
    (hpc = "done" /\ IsRedirect) =>
        /\ resp.status = 307
        /\ obs[1].whole
        /\ AnsweringKey \in DOMAIN Snapshot
        /\ resp.location = Snapshot[AnsweringKey].BrowserURL

\* C9 witness: a redirect to the URL of the snapshot the request observed,
\* after a later build has published another URL for the same name.
C9_Witness ==
    /\ hpc = "done"
    /\ resp.status = 307
    /\ resp.location = urlB
    /\ reqPath = pathDot
    /\ nDot \in DOMAIN assets
    /\ assets[nDot].BrowserURL = urlA

\* C10: a request whose final path segment matches no pattern is answered
\* 404, with no lookup of the catalog and no call of r.next.
C10_FilterRejects ==
    (hpc = "done" /\ ~AllowListed(reqPath)) =>
        /\ resp.status = 404
        /\ resp.next = 0
        /\ obs = << >>
        /\ file = << >>

\* C10 witness: the request for /dists/x.txt is answered 404.
C10_Witness ==
    /\ hpc = "done"
    /\ reqPath = pathText
    /\ resp.status = 404

\* The header fits the recognized format in full: three fields or more,
\* "Debian", a second field beginning "APT-HTTP", and a parenthesized
\* version whose major and minor are numbers.
Recognized(p) ==
    /\ p.fields = 3
    /\ p.label = <<"D", "e", "b", "i", "a", "n">>
    /\ HasPrefix(p.tag, <<"A", "P", "T", "-", "H", "T", "T", "P">>)
    /\ p.paren
    /\ Len(p.comps) >= 2
    /\ p.comps[1].num
    /\ p.comps[2].num

\* C11: a header of the recognized format with major M and minor m is
\* flagged exactly when M < 2, or M = 2 and m < 2.
C11_FlaggedBelowTwoTwo ==
    (probe.applied /\ Recognized(probe.parts)) =>
        LET M == probe.parts.comps[1].val
            m == probe.parts.comps[2].val IN
        probe.flagged <=> (M < 2 \/ (M = 2 /\ m < 2))

\* C11 witness: "Debian APT-HTTP/1.3 (2.0.11) non-interactive" was flagged.
C11_Witness ==
    /\ probe.applied
    /\ probe.ua = <<"D", "e", "b", "i", "a", "n", " ", "A", "P", "T", "-", "H", "T", "T", "P", "/", "1", ".", "3", " ", "(", "2", ".", "0", ".", "1", "1", ")", " ", "n", "o", "n", "-", "i", "n", "t", "e", "r", "a", "c", "t", "i", "v", "e">>
    /\ Recognized(probe.parts)
    /\ probe.flagged

\* C12 as stated: a header that does not fit the recognized format in full
\* is not flagged.
C12_UnrecognizedNotFlagged ==
    (probe.applied /\ ~Recognized(probe.parts)) => ~probe.flagged

\* C12, amended: a header is not flagged when it has fewer than three
\* fields, a first field other than "Debian", a second field not beginning
\* "APT-HTTP", a version of fewer than two components, a major that is not a
\* number, or a major of 2 or more with a minor that is not a number.
C12_MalformedNotFlagged ==
    LET p == probe.parts IN
    (/\ probe.applied
     /\ \/ p.fields < 3
        \/ p.label # <<"D", "e", "b", "i", "a", "n">>
        \/ ~HasPrefix(p.tag, <<"A", "P", "T", "-", "H", "T", "T", "P">>)
        \/ Len(p.comps) < 2
        \/ ~p.comps[1].num
        \/ (p.comps[1].val >= 2 /\ ~p.comps[2].num))
    => ~probe.flagged

\* C12 witness: "Debian APT-HTTP/1.3 (2.x)" was classified and not flagged.
C12_Witness ==
    /\ probe.applied
    /\ probe.ua = <<"D", "e", "b", "i", "a", "n", " ", "A", "P", "T", "-", "H", "T", "T", "P", "/", "1", ".", "3", " ", "(", "2", ".", "x", ")">>
    /\ ~probe.flagged

\* C13: when the requested name is not in the snapshot, the handler looks up
\* once more, under the name with only its first "~" made ".", and that
\* lookup alone decides: a name found under no other spelling goes to proxy.
C13_TildeFallbackOnce ==
    (hpc = "done" /\ AllowListed(reqPath) /\ Wanted(reqPath) \notin DOMAIN Snapshot) =>
        /\ Len(obs) = 2
        /\ ok <=> (WantedTilde(reqPath) \in DOMAIN Snapshot)
        /\ ok => hit = Snapshot[WantedTilde(reqPath)]
        /\ ~ok => (resp.next = 1 /\ ~IsRedirect)

\* C13 witness: a request for a~b~c.deb, with a.b.c.deb in the catalog and
\* neither a~b~c.deb nor a.b~c.deb, went to proxy.
C13_Witness ==
    /\ hpc = "done"
    /\ reqPath = pathTwoTilde
    /\ nTwoDot \in DOMAIN Snapshot
    /\ nOneTilde \notin DOMAIN Snapshot
    /\ Len(obs) = 2
    /\ resp.next = 1
    /\ ~IsRedirect

\* C14: until the first build has published, the catalog is empty and every
\* request the filter accepted is handed to proxy: none is redirected and
\* none is answered with an error.
C14_ProxyBeforeFirstBuild ==
    /\ gen = 0 => DOMAIN assets = {}
    /\ (hpc = "done" /\ AllowListed(reqPath) /\ obs[1].gen = 0) =>
          /\ ~ok
          /\ resp.next = 1
          /\ resp.status = 0
          /\ ~IsRedirect

\* C14 witness: while the first build was fetching, and already held the
\* requested name in newAssets, a request of a client that is not a buggy
\* APT went to proxy.
C14_Witness ==
    /\ hpc = "done"
    /\ AllowListed(reqPath)
    /\ gen = 0
    /\ rpc = "fetch"
    /\ obs[1].gen = 0
    /\ Wanted(reqPath) \in DOMAIN newAssets
    /\ reqUA = uaCurl
    /\ resp.next = 1

\* The final path segment is a repository-metadata name of the allow-list
\* (every pattern but "*.deb").
MetadataName(path) ==
    \E i \in DOMAIN validNames : i > 1 /\ Match(validNames[i], Base(path))

\* C15: a request under a repository-metadata name is handed to proxy and
\* never redirected, whatever names the catalog was built from.
C15_MetadataNeverRedirected ==
    (hpc = "done" /\ MetadataName(reqPath)) => (resp.next = 1 /\ ~IsRedirect)

\* The request left a record: it added to a counter or wrote a log line.
Recorded == resp.redirects # 0 \/ resp.bytes # 0 \/ resp.log # ""

\* C16: every request handed to proxy leaves a record, and the record tells
\* a no-match fallback (the name was not found) from a compatibility
\* fallback (the name was found, the client flagged).
C16_FallbacksRecorded ==
    (hpc = "done" /\ AllowListed(reqPath) /\ resp.next = 1) =>
        /\ Recorded
        /\ ok <=> resp.log = "serving proxied for buggy APT"

\* Serve is inside a build: past the tick, before the swap is done.
Building == rpc \in {"fetch", "lock", "swap"}

\* C17: a build starts only by taking a tick of the timer; while it runs the
\* timer is neither armed nor holds a tick; and the timer is armed again
\* only by the step that ends the build. So the next build starts after the
\* previous one has ended and the interval has run.
C17_OneBuildAtATime ==
    [][/\ Building' => timer' = "drained"
       /\ (~Building /\ Building') => (timer = "ready" /\ rpc = "select")
       /\ (timer # "armed" /\ timer' = "armed") => (rpc = "swap" /\ rpc' = "select")]_vars

\* C17 witness: the second build is at its third feed and no tick is pending.
C17_Witness ==
    /\ gen = 1
    /\ rpc = "fetch"
    /\ feedIdx = 3
    /\ timer = "drained"

\* C18: a fetch that does not hand the build on to its next step ends Serve
\* with an error, at the feed that failed; Serve holds an error only when it
\* has returned, with its timer stopped; and once it has returned it fetches
\* nothing, builds nothing and publishes nothing.
C18_FailureTerminates ==
    [][/\ (rpc = "fetch" /\ rpc' \notin {"fetch", "lock"}) =>
             (rpc' = "returned" /\ rerr' # "" /\ feedIdx' = feedIdx)
       /\ rerr' # "" => (rpc' = "returned" /\ timer' = "stopped")
       /\ rpc = "returned" =>
             UNCHANGED <<rpc, rerr, timer, feedIdx, newAssets, nonUnique, assets,
                         gauge, gen, published>>]_vars

\* C18 witness: the second build failed to decode its first feed; Serve has
\* returned that error and the other feeds were not fetched.
C18_Witness ==
    /\ rpc = "returned"
    /\ rerr = "decode"
    /\ gen = 1
    /\ feedIdx = 1
    /\ ~cancelled
    /\ timer = "stopped"

\* C19: the step that publishes leaves r.assets holding exactly the names
\* that one feed, and no more than one, held in this cycle, each with an
\* asset of that name fetched in this cycle, whatever r.assets held before.
C19_FullReplacement ==
    [][(rpc = "swap" /\ rpc' = "select") =>
          /\ DOMAIN assets' = {n \in AllNames : feedCount[n] = 1}
          /\ \A n \in DOMAIN assets' : assets'[n] \in seen[n]
          /\ gauge' = Cardinality(DOMAIN assets')]_vars

\* C19 witness: the second build has published, and a name the first
\* catalog held is gone from the second while another name is in it.
C19_Witness ==
    /\ gen = 2
    /\ rpc = "select"
    /\ before.gen = 1
    /\ nDot \in DOMAIN before.assets
    /\ nDot \notin DOMAIN assets
    /\ nTilde \in DOMAIN assets

\* C20: Serve holds r.mut only at the swap, never while it fetches or
\* decodes; a handler that waits for r.mut while a fetch is in progress finds
\* it free; and no step of a handler changes anything Serve owns or starts a
\* build.
C20_RequestsNeverWaitForFetch ==
    [][/\ mut' = "Serve" => rpc' = "swap"
       /\ (rpc' = "fetch" /\ hpc' = "serve") => mut' = "free"
       /\ hpc' # hpc => UNCHANGED refVars]_vars

\* C20 witness: while the second build waits for its second feed, a handler
\* holds r.mut and has found its name in the first catalog.
C20_Witness ==
    /\ rpc = "fetch"
    /\ feedIdx = 2
    /\ gen = 1
    /\ hpc = "unlock"
    /\ mut = "ServeHTTP"
    /\ ok

\* C21: once ctx is cancelled, Serve eventually returns, whether it was
\* waiting in select or inside a build; and whenever Serve has returned its
\* timer is stopped, so no wait is left behind.
C21_CancelTerminates ==
    /\ cancelled ~> (rpc = "returned" /\ timer = "stopped")
    /\ [](rpc = "returned" => timer = "stopped")

\* C21 witness: ctx was cancelled while the second build was fetching its
\* second feed, and Serve has returned the context's error.
C21_Witness ==
    /\ cancelled
    /\ rpc = "returned"
    /\ rerr = "context canceled"
    /\ gen = 1
    /\ feedIdx = 2
    /\ timer = "stopped"

\* C22: when the final path segment does not unescape, the handler looks up
\* the segment as it stands, and the request ends redirected or handed to
\* proxy; the handler writes no error.
C22_UnescapeErrorKeepsSegment ==
    (hpc = "done" /\ AllowListed(reqPath) /\ PathUnescape(Base(reqPath)).err) =>
        /\ file = Base(reqPath)
        /\ ok <=> (\/ Base(reqPath) \in DOMAIN Snapshot
                   \/ ReplaceFirst(Base(reqPath), "~", ".") \in DOMAIN Snapshot)
        /\ \/ resp.next = 1 /\ resp.status = 0
           \/ resp.next = 0 /\ resp.status = StatusTemporaryRedirect

\* C22 witness: a request for a%zb.deb, which does not unescape, was
\* redirected to the asset the catalog holds under that very name.
C22_Witness ==
    /\ hpc = "done"
    /\ reqPath = pathPercent
    /\ PathUnescape(Base(reqPath)).err
    /\ nPercent \in DOMAIN Snapshot
    /\ resp.status = StatusTemporaryRedirect
    /\ resp.location = Snapshot[nPercent].BrowserURL

\* C23: when the snapshot holds the requested name, the request resolves to
\* the entry under that name, whatever the snapshot holds under the name
\* with "~" made ".", and the second lookup is not made.
C23_DirectLookupFirst ==
    (hpc = "done" /\ AllowListed(reqPath) /\ Wanted(reqPath) \in DOMAIN Snapshot) =>
        /\ ok
        /\ hit = Snapshot[Wanted(reqPath)]
        /\ Len(obs) = 1
        /\ IsRedirect => resp.location = Snapshot[Wanted(reqPath)].BrowserURL

\* C23 witness: the catalog holds a~b.deb and a.b.deb at different URLs, and
\* a request for a~b.deb was redirected to the URL of a~b.deb.
C23_Witness ==
    /\ hpc = "done"
    /\ reqPath = pathTilde
    /\ nTilde \in DOMAIN Snapshot
    /\ nDot \in DOMAIN Snapshot
    /\ Snapshot[nTilde].BrowserURL # Snapshot[nDot].BrowserURL
    /\ Len(obs) = 1
    /\ resp.status = StatusTemporaryRedirect
    /\ resp.location = Snapshot[nTilde].BrowserURL

====
